---------------------------- MODULE Spec2Model ----------------------------
(***************************************************************************)
(* A model of one SwarmSpawner session (src/dockerspawner/spawners.py)     *)
(* and of the orchestrator service that carries the session's name.        *)
(*                                                                         *)
(* The orchestrator is the opaque remote of the four calls the spawner     *)
(* makes: services.get, services.create, remove_service and tasks.  Every  *)
(* outcome of a remote call is an input of the action that issues it.      *)
(* The model follows the control and data flow of the handlers.  It does   *)
(* not model how a call reaches the client object: poll() names the        *)
(* module-level `docker` instead of self.docker (line 352), start() passes *)
(* one argument to the two-parameter _parse_config (lines 285, 462) and    *)
(* get_service_config() names a bare default_config (line 250); each of    *)
(* these raises when executed as written.  The calls are modelled as the   *)
(* adapter calls and pure transformations they stand for, and log          *)
(* statements are no-ops.                                                  *)
(*                                                                         *)
(* Specifications:                                                         *)
(*   Spec        the handlers of one session whose configuration builds,   *)
(*               the service of its name having an empty Env list;         *)
(*   SpecAdopt   start() of a session constructed while a service of its   *)
(*               name may be live, with any Env list;                      *)
(*   SpecMerge   _update_config on any two configs;                        *)
(*   SpecLayers  the two groupings of _update_config over three layers;    *)
(*   SpecBuild   get_service_config() for any labels in default_config     *)
(*               and in the selected profile;                              *)
(*   SpecClient  the class-level executor and client, for the calls of     *)
(*               two sessions.                                             *)
(***************************************************************************)
EXTENDS Integers, Sequences, FiniteSets, TLC

\* ------------------------------------------------------------------ bounds

\* Longest task list the orchestrator returns.
MaxTasks == 2

\* How far past max_attempts the model follows the attempt counter.
MaxOver == 2

\* Largest max_attempts a direct call of wait_for_running_tasks passes.
MaxAttemptsArg == 2

\* Longest env entry, in symbols, and longest Env list of the found service.
MaxLine == 3

MaxEnv == 2

\* Longest list at a leaf of a config.
MaxList == 2

\* Most docker() calls one spawner makes.
MaxCalls == 2

\* ------------------------------------------------------- values of the code

\* service_id = "" (Unicode() default, clear_state)
EmptyId == 0

\* service = None
NoService == 0

\* service.id: opaque to the spawner, which only stores and compares it.  Two
\* values tell a newly created service from the one created before it.
Ids == {1, 2}

\* The id of a newly created service differs from that of the one before it.
fresh_id(old) == IF old = 1 THEN 2 ELSE 1

\* Task states the code tells apart, and one it treats as any other state.
TaskStates == {"running", "preparing", "rejected", "pending"}

TaskLists == UNION {[1..n -> TaskStates] : n \in 0..MaxTasks}

HasState(ts, s) == \E i \in 1..Len(ts) : ts[i] = s

LookupOutcomes == {"found", "notfound", "server_error", "client_error"}

RemoveOutcomes == {"removed", "notfound", "error"}

CreateOutcomes == {"created", "error"}

VARIABLES
    pc,             \* where the session's coroutine is suspended: "idle" (no handler
                    \* runs), "listing" (line 390), "sleeping" (line 407)
    op,             \* handler running or last completed
    ret,            \* what the last handler returned or raised; "pending" while it runs
    wait_ret,       \* what wait_for_running_tasks returned
    service_id,     \* self.service_id
    svc,            \* orchestrator: id of the live service with this name, or NoService
    made,           \* orchestrator: id of the service created last, or NoService
    service,        \* the value get_service() returned in this handler
    lookup,         \* outcome of the services.get call of this handler
    rm,             \* outcome of the last remove_service call of this handler
    creates,        \* services.create calls issued by this handler
    removes,        \* remove_service calls issued by this handler
    listed,         \* this handler issued a tasks call
    tasks,          \* the task list this handler walked last; <<>> while a tasks
                    \* call is in flight
    attempt,        \* wait_for_running_tasks: attempt         (these three are locals
    max_attempts,   \* wait_for_running_tasks: max_attempts     of the running wait and
    running,        \* wait_for_running_tasks: running          are 0/FALSE outside it)
    only_preparing, \* the wait runs, and every iteration so far listed a preparing
                    \* task and no running or rejected task
    stalled,        \* the wait runs, and every iteration so far listed no running,
                    \* preparing or rejected task
    prev_start,     \* the handler before this one was a start() that created a service
    prev_id,        \* service_id when this handler was called
    prev_svc,       \* svc when this handler was called
    api_token,      \* self.api_token, the session's credential
    envs,           \* orchestrator: the Env list of the service with this name
                    \* (service.attrs["Spec"]["TaskTemplate"]["ContainerSpec"]["Env"])
    prev_token      \* api_token when this handler was called

\* The variables of the session and of the orchestrator service of its name.
session == <<pc, op, ret, wait_ret, service_id, svc, made, service, lookup, rm, creates,
             removes, listed, tasks, attempt, max_attempts, running,
             only_preparing, stalled, prev_start, prev_id, prev_svc,
             api_token, envs, prev_token>>

VARIABLES
    config,         \* _update_config: config, flattened (a map from key paths to
                    \* leaves); get_service_config: the config of lines 228-247
    default_config, \* _update_config: update; get_service_config: self.default_config
    profile_config, \* get_service_config: user_options["config"]
    merged,         \* what _update_config(config, default_config) returned
    left,           \* what merging profile_config into the merge of config and
                    \* default_config returned (lines 250 and 256)
    right,          \* what merging into config the merge of default_config and
                    \* profile_config returned
    user_options,   \* self.user_options: [given, name, config]; given = FALSE is
                    \* the empty dict, a missing "name" is "", a missing "config" {}
    built,          \* what get_service_config() returned
    cls_executor,   \* SwarmSpawner._executor: "None" or "ThreadPoolExecutor"
    cls_client,     \* SwarmSpawner._client: NoClient or a client
    queue,          \* the pool's work queue: the spawner of each submitted _docker
    worker,         \* each pool thread: [pc, self, client, m], the place in
                    \* _docker and in the client property, and their locals
    constructed,    \* the docker.APIClient instances built, in order
    used,           \* [self, client]: the calls made, and the client each used
    submitted       \* the number of docker() calls of each spawner

\* The variables of the specifications of the module-level functions and of the
\* shared client, which the handlers of Spec leave alone.
\* The variables of the shared executor and client.
client_vars == <<cls_executor, cls_client, queue, worker, constructed, used,
                 submitted>>

others == <<config, default_config, profile_config, merged, left, right,
            user_options, built, client_vars>>

vars == <<session, others>>

\* An env entry and a credential are strings, modelled as sequences of symbols:
\* the text "JPY_API_TOKEN" as one symbol, the character "=", and "new", the
\* text of a credential the hub issued, which no env entry holds.
NewToken == <<"new">>

Symbols == {"JPY_API_TOKEN", "="}

EnvLines == UNION {[1..n -> Symbols] : n \in 0..MaxLine}

EnvLists == UNION {[1..n -> EnvLines] : n \in 0..MaxEnv}

\* The spawners of two sessions, and docker_client_tls_config of each.
Spawners == {"s1", "s2"}

TlsOf(s) == IF s = "s1" THEN "tls_a" ELSE "tls_b"

\* executor, line 143: max_workers=1; a property takes no argument, so the
\* pool always has this size.
max_workers == 1

\* Mutant of Workers: the pool has one thread more.
MoreWorkers == 1..(max_workers + 1)

\* The threads of the pool.
Workers == 1..max_workers

\* _client = None
NoClient == [id |-> 0, tls |-> "None"]

IdleWorker == [pc |-> "idle", self |-> "none", client |-> NoClient, m |-> NoClient]

\* No docker() call was made: the class attributes are as declared.
ClientIdle ==
    /\ cls_executor = "None"
    /\ cls_client = NoClient
    /\ queue = <<>>
    /\ worker = [w \in Workers |-> IdleWorker]
    /\ constructed = <<>>
    /\ used = {}
    /\ submitted = [s \in Spawners |-> 0]

\* self.user_options = {}
NoOptions == [given |-> FALSE, name |-> "", config |-> <<>>]

\* What a call returned, before the call: nothing.
NotCalled == [called |-> FALSE, raised |-> FALSE, config |-> <<>>]

\* No call of the module-level functions is followed.
OthersIdle ==
    /\ config = <<>>
    /\ default_config = <<>>
    /\ profile_config = <<>>
    /\ merged = NotCalled
    /\ left = NotCalled
    /\ right = NotCalled
    /\ user_options = NoOptions
    /\ built = NotCalled
    /\ ClientIdle

\* max_attempts=20 (default of wait_for_running_tasks)
DefaultMaxAttempts == 20

\* The session after construction, no service of its name being live.
SessionInit ==
    /\ pc = "idle"
    /\ op = "none"
    /\ ret = "none"
    /\ wait_ret = "none"
    /\ service_id = EmptyId
    /\ svc = NoService
    /\ made = NoService
    /\ service = NoService
    /\ lookup = "none"
    /\ rm = "none"
    /\ creates = 0
    /\ removes = 0
    /\ listed = FALSE
    /\ tasks = <<>>
    /\ attempt = 0
    /\ max_attempts = 0
    /\ running = FALSE
    /\ only_preparing = FALSE
    /\ stalled = FALSE
    /\ prev_start = FALSE
    /\ prev_id = EmptyId
    /\ prev_svc = NoService
    /\ api_token = NewToken
    /\ envs = <<>>
    /\ prev_token = NewToken

Init == SessionInit /\ OthersIdle

\* A handler is called: what the session and the orchestrator held before it.
Enter(o) ==
    /\ op' = o
    /\ prev_start' = (op = "start" /\ creates = 1 /\ service_id # EmptyId)
    /\ prev_id' = service_id
    /\ prev_svc' = svc
    /\ prev_token' = api_token

\* No readiness wait runs: its locals are gone.
NoLocals ==
    /\ attempt' = 0
    /\ max_attempts' = 0
    /\ running' = FALSE
    /\ only_preparing' = FALSE
    /\ stalled' = FALSE

\* The handler runs no readiness wait.
NoWait ==
    /\ wait_ret' = "none"
    /\ attempt' = 0
    /\ max_attempts' = 0
    /\ running' = FALSE
    /\ only_preparing' = FALSE
    /\ stalled' = FALSE

\* The orchestrator answers services.get by name: a service is found only when
\* one is live and reported missing only when none is; it may fail either way.
LookupPossible(out) ==
    /\ out = "found" => svc # NoService
    /\ out = "notfound" => svc = NoService

\* Mutant of get_service: a server-side error is raised like a client-side one.
get_service_raises(out) ==
    CASE out = "found" ->
           [service |-> svc, service_id |-> svc, raised |-> FALSE]
      [] out = "notfound" ->
           [service |-> NoService, service_id |-> EmptyId, raised |-> FALSE]
      [] OTHER ->
           [service |-> NoService, service_id |-> service_id, raised |-> TRUE]

\* Mutant of get_service: the found service is stored but not returned.
get_service_drops(out) ==
    CASE out = "found" ->
           [service |-> NoService, service_id |-> svc, raised |-> FALSE]
      [] out = "client_error" ->
           [service |-> NoService, service_id |-> service_id, raised |-> TRUE]
      [] OTHER ->
           [service |-> NoService, service_id |-> EmptyId, raised |-> FALSE]

\* Mutant of get_service: a client-side error clears the stored id before it
\* is raised again.
get_service_clears(out) ==
    CASE out = "found" ->
           [service |-> svc, service_id |-> svc, raised |-> FALSE]
      [] out = "client_error" ->
           [service |-> NoService, service_id |-> EmptyId, raised |-> TRUE]
      [] OTHER ->
           [service |-> NoService, service_id |-> EmptyId, raised |-> FALSE]

\* get_service(): the value returned, self.service_id afterwards, and whether
\* the APIError was raised again (a client-side error, line 216).
get_service(out) ==
    CASE out = "found" ->
           [service |-> svc, service_id |-> svc, raised |-> FALSE]
      [] out = "notfound" ->
           [service |-> NoService, service_id |-> EmptyId, raised |-> FALSE]
      [] out = "server_error" ->
           [service |-> NoService, service_id |-> EmptyId, raised |-> FALSE]
      [] out = "client_error" ->
           [service |-> NoService, service_id |-> service_id, raised |-> TRUE]

\* clear_state(): self.service_id = ""
clear_state(st) == [st EXCEPT !.service_id = EmptyId]

\* The orchestrator answers remove_service by name: it removes a live service,
\* reports a missing one as NotFound, or fails with an APIError.
RemovePossible(live, out) ==
    /\ out = "removed" => live # NoService
    /\ out = "notfound" => live = NoService

\* Mutant of stop: an APIError of remove_service escapes, before clear_state().
stop_raises(st, out) ==
    IF out = "error"
      THEN [st EXCEPT !.removes = @ + 1, !.rm = out, !.raised = TRUE]
      ELSE clear_state([st EXCEPT !.svc = IF out = "removed" THEN NoService ELSE @,
                                  !.removes = @ + 1,
                                  !.rm = out,
                                  !.ok = @ /\ RemovePossible(st.svc, out)])

\* stop() on the handler state st = [service_id, svc, removes, rm, raised, ok,
\* running_task], the remove_service call ending with `out`: NotFound and
\* APIError are caught, then clear_state() runs.
stop(st, out) ==
    clear_state([st EXCEPT !.svc = IF out = "removed" THEN NoService ELSE @,
                           !.removes = @ + 1,
                           !.rm = out,
                           !.ok = @ /\ RemovePossible(st.svc, out)])

\* The handler state a handler starts from.
Entry ==
    [service_id |-> service_id, svc |-> svc, removes |-> 0, rm |-> "none",
     raised |-> FALSE, ok |-> TRUE, running_task |-> FALSE]

\* Mutant of creates_service: start() creates without looking at the lookup.
creates_service_always(g) == TRUE

\* start(), line 283: `if service is None` takes the create path.
creates_service(g) == g.service = NoService

\* The orchestrator answers services.create: names are unique in it, so a
\* service is created only when none with this name is live; it may fail.
CreatePossible(out) == out = "created" => svc = NoService

\* Mutant of poll_task: running_task follows the task at hand, so a later task
\* that is not running forgets the running one.
poll_task_last(st, s, outs) ==
    LET st1 == [st EXCEPT !.running_task = (s = "running")]
    IN  IF s = "rejected" THEN stop(st1, outs[st1.removes + 1]) ELSE st1

\* poll(), lines 358-378: one task of the list.  `outs` are the outcomes of the
\* remove_service calls this poll() makes, in order.
poll_task(st, s, outs) ==
    LET st1 == IF s = "running" THEN [st EXCEPT !.running_task = TRUE] ELSE st
    IN  IF s = "rejected" THEN stop(st1, outs[st1.removes + 1]) ELSE st1

\* poll(), line 357: `for task in tasks`.
RECURSIVE poll_tasks(_, _, _)
poll_tasks(ts, outs, st) ==
    IF ts = <<>> THEN st
    ELSE poll_tasks(Tail(ts), outs, poll_task(st, Head(ts), outs))

\* poll(), lines 380-383: None when a running task was seen, else 0.
poll_result(st) == IF st.running_task THEN "None" ELSE "0"

NumRejected(ts) == Cardinality({i \in 1..Len(ts) : ts[i] = "rejected"})

\* Mutant of wait_task: a rejected task ends the wait only when no running
\* task was seen before it.
wait_task_unless_running(w, s) ==
    LET r == w.running \/ s = "running"
        p == w.preparing \/ s = "preparing"
    IN  [running |-> r, preparing |-> p,
         returned |-> ((s = "rejected" /\ ~r) \/ attempt > max_attempts)]

\* wait_for_running_tasks(), lines 393-404: one task of the list, on the loop
\* state w = [running, preparing, returned]; `returned` is `return False`.
wait_task(w, s) ==
    LET r == w.running \/ s = "running"
        p == w.preparing \/ s = "preparing"
    IN  [running |-> r, preparing |-> p,
         returned |-> (s = "rejected" \/ attempt > max_attempts)]

\* wait_for_running_tasks(), line 392: `for task in tasks`, left at the first
\* `return False`.
RECURSIVE wait_tasks(_, _)
wait_tasks(ts, w) ==
    IF ts = <<>> \/ w.returned THEN w
    ELSE wait_tasks(Tail(ts), wait_task(w, Head(ts)))

\* Mutant of next_attempt: every iteration counts as an attempt.
next_attempt_always(preparing) == attempt + 1

\* wait_for_running_tasks(), lines 405-406: `if not preparing: attempt += 1`.
next_attempt(preparing) == IF preparing THEN attempt ELSE attempt + 1

\* Mutant of wait_return: start() raises when its readiness wait ends False.
wait_return_raises(r) ==
    IF op = "start" /\ r # "False" THEN "ip_port" ELSE "APIError"

\* start(), lines 312-315: what the caller of the wait gets when it ends with r.
wait_return(r) == IF op = "start" THEN "ip_port" ELSE r

\* The text start() looks for at the head of an env entry (line 305).
TokenPrefix == <<"JPY_API_TOKEN", "=">>

\* line.startswith(prefix)
startswith(line, prefix) ==
    /\ Len(line) >= Len(prefix)
    /\ SubSeq(line, 1, Len(prefix)) = prefix

\* line.split("=", 1), reading `rest` after `before`: the text before the first
\* "=" and the text after it, or the whole text when it holds no "=".
RECURSIVE split_from(_, _)
split_from(before, rest) ==
    IF rest = <<>> THEN <<before>>
    ELSE IF Head(rest) = "=" THEN <<before, Tail(rest)>>
    ELSE split_from(Append(before, Head(rest)), Tail(rest))

split(line) == split_from(<<>>, line)

\* Mutant of adopt_token: the loop has no `break`, so the last matching entry
\* sets the credential.
RECURSIVE adopt_token_no_break(_, _)
adopt_token_no_break(lines, token) ==
    IF lines = <<>> THEN token
    ELSE adopt_token_no_break(Tail(lines),
                              IF startswith(Head(lines), TokenPrefix)
                                THEN split(Head(lines))[2]
                                ELSE token)

\* start(), lines 304-307: self.api_token after the loop over the env entries,
\* `token` being self.api_token before it.  Python indexes the split from 0:
\* [1] is the second part.
RECURSIVE adopt_token(_, _)
adopt_token(lines, token) ==
    IF lines = <<>> THEN token
    ELSE IF startswith(Head(lines), TokenPrefix)
           THEN split(Head(lines))[2]
           ELSE adopt_token(Tail(lines), token)

\* ---------------------------------------------------------------- handlers

\* get_service() called on its own.
GetService ==
    /\ pc = "idle"
    /\ \E out \in LookupOutcomes :
         /\ LookupPossible(out)
         /\ LET g == get_service(out) IN
              /\ service_id' = g.service_id
              /\ service' = g.service
              /\ ret' = IF g.raised THEN "APIError"
                        ELSE IF g.service = NoService THEN "None" ELSE "service"
         /\ lookup' = out
    /\ Enter("get_service")
    /\ NoWait
    /\ rm' = "none" /\ creates' = 0 /\ removes' = 0 /\ listed' = FALSE
    /\ tasks' = <<>>
    /\ UNCHANGED <<pc, svc, made, api_token, envs>>
    /\ UNCHANGED others

\* stop()
Stop ==
    /\ pc = "idle"
    /\ \E out \in RemoveOutcomes :
         LET st == stop(Entry, out) IN
           /\ st.ok
           /\ service_id' = st.service_id
           /\ svc' = st.svc
           /\ removes' = st.removes
           /\ rm' = st.rm
           /\ ret' = IF st.raised THEN "APIError" ELSE "None"
    /\ Enter("stop")
    /\ NoWait
    /\ service' = NoService /\ lookup' = "none" /\ creates' = 0
    /\ listed' = FALSE /\ tasks' = <<>>
    /\ UNCHANGED <<pc, made, api_token, envs>>
    /\ UNCHANGED others

\* start(), up to the first tasks call of its readiness wait.
start ==
    /\ pc = "idle"
    /\ Enter("start")
    /\ rm' = "none" /\ removes' = 0 /\ tasks' = <<>>
    /\ \E out \in LookupOutcomes :
         /\ LookupPossible(out)
         /\ lookup' = out
         /\ LET g == get_service(out) IN
              /\ service' = g.service
              /\ \/ /\ g.raised
                    /\ service_id' = g.service_id
                    /\ ret' = "APIError"
                    /\ creates' = 0 /\ listed' = FALSE
                    /\ NoWait
                    /\ UNCHANGED <<pc, svc, made, api_token>>
                 \/ /\ ~g.raised /\ creates_service(g)
                    /\ creates' = 1
                    /\ UNCHANGED api_token
                    /\ \E c \in CreateOutcomes :
                         /\ CreatePossible(c)
                         /\ \/ /\ c = "error"
                               /\ service_id' = g.service_id
                               /\ ret' = "APIError"
                               /\ listed' = FALSE
                               /\ NoWait
                               /\ UNCHANGED <<pc, svc, made>>
                            \/ /\ c = "created"
                               /\ svc' = fresh_id(made)
                               /\ made' = fresh_id(made)
                               /\ service_id' = fresh_id(made)
                               /\ pc' = "listing"
                               /\ ret' = "pending" /\ wait_ret' = "pending"
                               /\ listed' = TRUE
                               /\ attempt' = 0
                               /\ max_attempts' = DefaultMaxAttempts
                               /\ running' = FALSE
                               /\ only_preparing' = TRUE /\ stalled' = TRUE
                 \/ /\ ~g.raised /\ ~creates_service(g)
                    /\ service_id' = g.service_id
                    /\ ret' = "ip_port"
                    /\ api_token' = adopt_token(envs, api_token)
                    /\ creates' = 0 /\ listed' = FALSE
                    /\ NoWait
                    /\ UNCHANGED <<pc, svc, made>>
    /\ UNCHANGED envs
    /\ UNCHANGED others

\* poll()
poll ==
    /\ pc = "idle"
    /\ Enter("poll")
    /\ NoWait
    /\ service' = NoService /\ lookup' = "none" /\ creates' = 0
    /\ listed' = TRUE
    /\ \/ /\ ret' = "APIError"
          /\ tasks' = <<>> /\ removes' = 0 /\ rm' = "none"
          /\ UNCHANGED <<service_id, svc>>
       \/ \E ts \in TaskLists :
            \E outs \in [1..NumRejected(ts) -> RemoveOutcomes] :
              LET st == poll_tasks(ts, outs, Entry) IN
                /\ st.ok
                /\ tasks' = ts
                /\ service_id' = st.service_id
                /\ svc' = st.svc
                /\ removes' = st.removes
                /\ rm' = st.rm
                /\ ret' = poll_result(st)
    /\ UNCHANGED <<pc, made, api_token, envs>>
    /\ UNCHANGED others

\* wait_for_running_tasks(max_attempts) called on its own, up to its first
\* tasks call.
wait_for_running_tasks ==
    /\ pc = "idle"
    /\ Enter("wait")
    /\ \E m \in 0..MaxAttemptsArg : max_attempts' = m
    /\ pc' = "listing"
    /\ ret' = "pending" /\ wait_ret' = "pending"
    /\ attempt' = 0 /\ running' = FALSE
    /\ only_preparing' = TRUE /\ stalled' = TRUE
    /\ listed' = TRUE
    /\ service' = NoService /\ lookup' = "none" /\ rm' = "none"
    /\ creates' = 0 /\ removes' = 0 /\ tasks' = <<>>
    /\ UNCHANGED <<service_id, svc, made, api_token, envs>>
    /\ UNCHANGED others

\* The tasks call of line 390 raises: the error leaves the loop and the handler.
WaitTasksError ==
    /\ pc = "listing"
    /\ pc' = "idle"
    /\ ret' = "APIError" /\ wait_ret' = "APIError"
    /\ NoLocals
    /\ UNCHANGED <<op, service_id, svc, made, service, lookup, rm, creates, removes,
                   listed, tasks, prev_start, prev_id, prev_svc,
                   api_token, envs, prev_token>>
    /\ UNCHANGED others

\* Lines 390-407: the tasks call returns, the list is walked, and the loop
\* either returns False or counts the attempt and sleeps.
WaitTasks ==
    /\ pc = "listing"
    /\ attempt <= max_attempts + MaxOver
    /\ \E ts \in TaskLists :
         LET w == wait_tasks(ts, [running |-> running, preparing |-> FALSE,
                                   returned |-> FALSE])
         IN  /\ tasks' = ts
             /\ IF w.returned
                  THEN /\ pc' = "idle"
                       /\ wait_ret' = "False"
                       /\ ret' = wait_return("False")
                       /\ NoLocals
                  ELSE /\ pc' = "sleeping"
                       /\ attempt' = next_attempt(w.preparing)
                       /\ running' = w.running
                       /\ only_preparing' = (/\ only_preparing
                                             /\ HasState(ts, "preparing")
                                             /\ ~HasState(ts, "running"))
                       /\ stalled' = (/\ stalled
                                      /\ ~HasState(ts, "running")
                                      /\ ~HasState(ts, "preparing"))
                       /\ UNCHANGED <<ret, wait_ret, max_attempts>>
    /\ UNCHANGED <<op, service_id, svc, made, service, lookup, rm, creates, removes,
                   listed, prev_start, prev_id, prev_svc,
                   api_token, envs, prev_token>>
    /\ UNCHANGED others

\* Lines 407 and 389: the sleep ends; `while not running` either leaves the
\* loop, and the function returns None, or issues the next tasks call, whose
\* result replaces the list walked before.
WaitSleep ==
    /\ pc = "sleeping"
    /\ IF running
         THEN /\ pc' = "idle"
              /\ wait_ret' = "None"
              /\ ret' = wait_return("None")
              /\ NoLocals
              /\ UNCHANGED tasks
         ELSE /\ pc' = "listing"
              /\ tasks' = <<>>
              /\ UNCHANGED <<ret, wait_ret, attempt, max_attempts, running,
                             only_preparing, stalled>>
    /\ UNCHANGED <<op, service_id, svc, made, service, lookup, rm, creates, removes,
                   listed, prev_start, prev_id, prev_svc,
                   api_token, envs, prev_token>>
    /\ UNCHANGED others

\* The service is removed from outside the session.
ServiceGone ==
    /\ svc # NoService
    /\ svc' = NoService
    /\ UNCHANGED <<pc, op, ret, wait_ret, service_id, made, service, lookup, rm, creates,
                   removes, listed, tasks, attempt, max_attempts, running,
                   only_preparing, stalled, prev_start, prev_id, prev_svc,
                   api_token, envs, prev_token>>
    /\ UNCHANGED others

Next ==
    \/ GetService
    \/ start
    \/ Stop
    \/ poll
    \/ wait_for_running_tasks
    \/ WaitTasks
    \/ WaitTasksError
    \/ WaitSleep
    \/ ServiceGone

Spec == Init /\ [][Next]_vars

\* A session constructed while the orchestrator may hold a service of its name
\* from an earlier run of the hub, with any Env list; load_state() may have
\* restored the id of that service.
InitAdopt ==
    /\ pc = "idle" /\ op = "none" /\ ret = "none" /\ wait_ret = "none"
    /\ svc \in {NoService} \cup Ids
    /\ made = svc
    /\ service_id \in {EmptyId, svc}
    /\ envs \in IF svc = NoService THEN {<<>>} ELSE EnvLists
    /\ api_token = NewToken /\ prev_token = NewToken
    /\ service = NoService /\ lookup = "none" /\ rm = "none"
    /\ creates = 0 /\ removes = 0 /\ listed = FALSE /\ tasks = <<>>
    /\ attempt = 0 /\ max_attempts = 0 /\ running = FALSE
    /\ only_preparing = FALSE /\ stalled = FALSE
    /\ prev_start = FALSE /\ prev_id = EmptyId /\ prev_svc = NoService
    /\ OthersIdle

NextAdopt == start

SpecAdopt == InitAdopt /\ [][NextAdopt]_vars

\* ------------------------------------------------------------ _update_config

\* A nested config is held as flatten() gives it: a map from key paths to
\* leaves.  A leaf is a list (items) or a scalar (one item, list = FALSE).
\* unflatten() takes the map back to the nested config.  flatten_dict is not
\* part of src/; the configs followed are those whose key paths are not
\* prefixes of one another, for which the two conversions are inverses.
Paths == {<<"image">>, <<"mounts">>}

Values == {"x", "y"}

Scalars == {[list |-> FALSE, items |-> <<v>>] : v \in Values}

Lists == {[list |-> TRUE, items |-> l] :
            l \in UNION {[1..n -> Values] : n \in 0..MaxList}}

Configs(paths, leaves) == UNION {[D -> leaves] : D \in SUBSET paths}

\* config[opt] = val
Put(cfg, opt, val) ==
    [o \in DOMAIN cfg \cup {opt} |-> IF o = opt THEN val ELSE cfg[o]]

\* Mutant of update_item: the lists are joined base first (val2 + val1).
update_item_base_first(st, opt, val1) ==
    IF val1.list /\ opt \in DOMAIN st.config
      THEN LET val2 == st.config[opt] IN
             IF val2.list
               THEN [st EXCEPT !.config =
                       Put(@, opt, [list |-> TRUE, items |-> val2.items \o val1.items])]
               ELSE [st EXCEPT !.raised = TRUE]
      ELSE [st EXCEPT !.config = Put(@, opt, val1)]

\* Mutant of update_item: no assert, a list replaces a scalar of config.
update_item_no_assert(st, opt, val1) ==
    IF val1.list /\ opt \in DOMAIN st.config /\ st.config[opt].list
      THEN [st EXCEPT !.config =
              Put(@, opt, [list |-> TRUE,
                           items |-> val1.items \o st.config[opt].items])]
      ELSE [st EXCEPT !.config = Put(@, opt, val1)]

\* _update_config, lines 423-428: one item (opt, val1) of update, on
\* st = [called, raised, config]; `raised` is the AssertionError of line 425.
update_item(st, opt, val1) ==
    IF val1.list /\ opt \in DOMAIN st.config
      THEN LET val2 == st.config[opt] IN
             IF val2.list
               THEN [st EXCEPT !.config =
                       Put(@, opt, [list |-> TRUE, items |-> val1.items \o val2.items])]
               ELSE [st EXCEPT !.raised = TRUE]
      ELSE [st EXCEPT !.config = Put(@, opt, val1)]

\* _update_config, line 422: `for opt, val1 in update.items()`, left at the
\* AssertionError.
RECURSIVE update_items(_, _, _)
update_items(st, update, opts) ==
    IF opts = {} \/ st.raised THEN st
    ELSE LET opt == CHOOSE o \in opts : TRUE
         IN  update_items(update_item(st, opt, update[opt]), update, opts \ {opt})

\* _update_config(config, update): [called, raised, config], config being the
\* value returned when nothing was raised.
update_config(cfg, update) ==
    LET st == update_items([called |-> TRUE, raised |-> FALSE, config |-> cfg],
                           update, DOMAIN update)
    IN  IF st.raised THEN [st EXCEPT !.config = <<>>] ELSE st

\* Any two configs, before _update_config(config, default_config) is called.
InitMerge ==
    /\ SessionInit
    /\ config \in Configs(Paths, Scalars \cup Lists)
    /\ default_config \in Configs(Paths, Scalars \cup Lists)
    /\ profile_config = <<>>
    /\ merged = NotCalled
    /\ left = NotCalled
    /\ right = NotCalled
    /\ user_options = NoOptions
    /\ built = NotCalled
    /\ ClientIdle

\* get_service_config(), line 250: config = _update_config(config, default_config)
Merge ==
    /\ ~merged.called
    /\ merged' = update_config(config, default_config)
    /\ UNCHANGED <<config, default_config, profile_config, left, right,
                   user_options, built, client_vars>>
    /\ UNCHANGED session

NextMerge == Merge

SpecMerge == InitMerge /\ [][NextMerge]_vars

\* The leaves of one configuration layer: its scalar, and its lists of up to
\* MaxList items.  Each layer has a value of its own, so that the result shows
\* which layer every item came from.
LayerLeaves(v) ==
    {[list |-> FALSE, items |-> <<v>>]}
        \cup {[list |-> TRUE, items |-> [i \in 1..n |-> v]] : n \in 0..MaxList}

\* The three layers of get_service_config(): the config built from the session,
\* default_config, and the config of the selected profile.
InitLayers ==
    /\ SessionInit
    /\ config \in Configs(Paths, LayerLeaves("a"))
    /\ default_config \in Configs(Paths, LayerLeaves("b"))
    /\ profile_config \in Configs(Paths, LayerLeaves("c"))
    /\ merged = NotCalled
    /\ left = NotCalled
    /\ right = NotCalled
    /\ user_options = NoOptions
    /\ built = NotCalled
    /\ ClientIdle

\* _update_config(_update_config(a, b), c): the second call is not reached when
\* the first raised.
update_left(a, b, c) ==
    LET ab == update_config(a, b)
    IN  IF ab.raised THEN ab ELSE update_config(ab.config, c)

\* _update_config(a, _update_config(b, c))
update_right(a, b, c) ==
    LET bc == update_config(b, c)
    IN  IF bc.raised THEN bc ELSE update_config(a, bc.config)

\* get_service_config(), lines 250 and 256: the layers merged in the order the
\* code merges them.
GroupLeft ==
    /\ ~left.called
    /\ left' = update_left(config, default_config, profile_config)
    /\ UNCHANGED <<config, default_config, profile_config, merged, right,
                   user_options, built, client_vars>>
    /\ UNCHANGED session

\* The other grouping: default_config and profile_config merged first.
GroupRight ==
    /\ ~right.called
    /\ right' = update_right(config, default_config, profile_config)
    /\ UNCHANGED <<config, default_config, profile_config, merged, left,
                   user_options, built, client_vars>>
    /\ UNCHANGED session

NextLayers ==
    \/ GroupLeft
    \/ GroupRight

SpecLayers == InitLayers /\ [][NextLayers]_vars

\* ------------------------------------------------------- get_service_config

\* The keys of the labels get_service_config() computes (lines 259-261), and
\* one label key of the caller's.
IdentityKeys ==
    {"org.jupyterhub.user", "org.jupyterhub.server", "org.jupyterhub.profile"}

LabelKeys == IdentityKeys \cup {"team"}

LabelPaths == {<<"labels", k>> : k \in LabelKeys}

\* self.user.name, self.name and the names a profile may have.
UserName == "alice"

ServerName == "lab"

ProfileNames == {"", "gpu"}

Scalar(v) == [list |-> FALSE, items |-> <<v>>]

\* Lines 228-233: the config before the merges; it holds no labels.
BaseConfig ==
    [p \in {<<"name">>, <<"env">>} |->
        IF p = <<"name">> THEN Scalar("jupyter-alice-lab")
        ELSE [list |-> TRUE, items |-> <<"JPY_API_TOKEN=new">>]]

\* Lines 258-262: labels
labels(profile_name) ==
    [k \in IdentityKeys |->
        IF k = "org.jupyterhub.user" THEN UserName
        ELSE IF k = "org.jupyterhub.server" THEN ServerName
        ELSE profile_name]

\* `"labels" in config`, on the flattened config
has_labels(cfg) == \E p \in DOMAIN cfg : p[1] = "labels"

\* Mutant of set_labels: config["labels"] = labels, whatever config holds.
set_labels_replace(cfg, lbls) ==
    [p \in {q \in DOMAIN cfg : q[1] # "labels"}
              \cup {<<"labels", k>> : k \in DOMAIN lbls} |->
        IF p[1] = "labels" THEN Scalar(lbls[p[2]]) ELSE cfg[p]]

\* Lines 263-266: config["labels"].update(labels) when config holds labels,
\* else config["labels"] = labels.
set_labels(cfg, lbls) ==
    IF has_labels(cfg)
      THEN [p \in DOMAIN cfg \cup {<<"labels", k>> : k \in DOMAIN lbls} |->
              IF p[1] = "labels" /\ p[2] \in DOMAIN lbls
                THEN Scalar(lbls[p[2]]) ELSE cfg[p]]
      ELSE [p \in DOMAIN cfg \cup {<<"labels", k>> : k \in DOMAIN lbls} |->
              IF p \in DOMAIN cfg THEN cfg[p] ELSE Scalar(lbls[p[2]])]

\* get_service_config(), lines 249-266, on the config of lines 228-247:
\* [called, raised, config].  An empty default_config and empty user_options
\* are falsy and skip their merge.
get_service_config(cfg, dflt, opts) ==
    LET c1 == IF dflt # <<>> THEN update_config(cfg, dflt)
              ELSE [called |-> TRUE, raised |-> FALSE, config |-> cfg]
        profile_name == IF opts.given THEN opts.name ELSE ""
    IN  IF c1.raised THEN c1
        ELSE LET c2 == IF opts.given THEN update_config(c1.config, opts.config)
                       ELSE c1
             IN  IF c2.raised THEN c2
                 ELSE [c2 EXCEPT !.config = set_labels(@, labels(profile_name))]

\* A session with any labels in default_config and in the selected profile.
InitBuild ==
    /\ SessionInit
    /\ config = BaseConfig
    /\ default_config \in Configs(LabelPaths, Scalars)
    /\ user_options \in
         {NoOptions} \cup
         {[given |-> TRUE, name |-> n, config |-> c] :
            n \in ProfileNames, c \in Configs(LabelPaths, Scalars)}
    /\ profile_config = user_options.config
    /\ merged = NotCalled
    /\ left = NotCalled
    /\ right = NotCalled
    /\ built = NotCalled
    /\ ClientIdle

\* start(), line 284: config = self.get_service_config()
GetServiceConfig ==
    /\ ~built.called
    /\ built' = get_service_config(config, default_config, user_options)
    /\ UNCHANGED <<config, default_config, profile_config, merged, left, right,
                   user_options, client_vars>>
    /\ UNCHANGED session

NextBuild == GetServiceConfig

SpecBuild == InitBuild /\ [][NextBuild]_vars

\* ------------------------------------------------------- executor and client

\* The variables _update_config and get_service_config are followed in.
config_vars == <<config, default_config, profile_config, merged, left, right,
                 user_options, built>>

\* No call was made yet.
InitClient ==
    /\ SessionInit
    /\ OthersIdle

\* docker(), line 194, on the event loop's thread: the executor property makes
\* the pool when the class has none (lines 145-148), and the call is queued.
Submit(s) ==
    /\ submitted[s] < MaxCalls
    /\ submitted' = [submitted EXCEPT ![s] = @ + 1]
    /\ cls_executor' = "ThreadPoolExecutor"
    /\ queue' = Append(queue, s)
    /\ UNCHANGED <<cls_client, worker, constructed, used>>
    /\ UNCHANGED <<session, config_vars>>

\* A free pool thread takes the next call and enters _docker (line 185).
Take(w) ==
    /\ worker[w].pc = "idle"
    /\ queue # <<>>
    /\ worker' = [worker EXCEPT ![w] = [IdleWorker EXCEPT !.pc = "check",
                                                         !.self = Head(queue)]]
    /\ queue' = Tail(queue)
    /\ UNCHANGED <<cls_executor, cls_client, constructed, used, submitted>>
    /\ UNCHANGED <<session, config_vars>>

\* client, line 157: `if cls._client is None`
ClientCheck(w) ==
    /\ worker[w].pc = "check"
    /\ worker' = [worker EXCEPT ![w].pc =
                     IF cls_client = NoClient THEN "build" ELSE "return"]
    /\ UNCHANGED <<cls_executor, cls_client, queue, constructed, used, submitted>>
    /\ UNCHANGED <<session, config_vars>>

\* client, lines 158-162: docker.APIClient(version="auto", **kwargs) with the
\* TLS configuration of the spawner at hand.
ClientBuild(w) ==
    /\ worker[w].pc = "build"
    /\ LET client == [id |-> Len(constructed) + 1, tls |-> TlsOf(worker[w].self)]
       IN  /\ constructed' = Append(constructed, client)
           /\ worker' = [worker EXCEPT ![w].pc = "store", ![w].client = client]
    /\ UNCHANGED <<cls_executor, cls_client, queue, used, submitted>>
    /\ UNCHANGED <<session, config_vars>>

\* client, line 162: docker.APIClient raises (the daemon does not answer); the
\* error ends the call and nothing is stored.
ClientBuildFails(w) ==
    /\ worker[w].pc = "build"
    /\ worker' = [worker EXCEPT ![w] = IdleWorker]
    /\ UNCHANGED <<cls_executor, cls_client, queue, constructed, used, submitted>>
    /\ UNCHANGED <<session, config_vars>>

\* client, line 163: cls._client = client
ClientStore(w) ==
    /\ worker[w].pc = "store"
    /\ cls_client' = worker[w].client
    /\ worker' = [worker EXCEPT ![w].pc = "return"]
    /\ UNCHANGED <<cls_executor, queue, constructed, used, submitted>>
    /\ UNCHANGED <<session, config_vars>>

\* client, line 165, and _docker, line 185: m = self.client
ClientReturn(w) ==
    /\ worker[w].pc = "return"
    /\ worker' = [worker EXCEPT ![w].pc = "call", ![w].m = cls_client]
    /\ UNCHANGED <<cls_executor, cls_client, queue, constructed, used, submitted>>
    /\ UNCHANGED <<session, config_vars>>

\* _docker, lines 186-188: the method of the client is called.
Call(w) ==
    /\ worker[w].pc = "call"
    /\ used' = used \cup {[self |-> worker[w].self, client |-> worker[w].m]}
    /\ worker' = [worker EXCEPT ![w] = IdleWorker]
    /\ UNCHANGED <<cls_executor, cls_client, queue, constructed, submitted>>
    /\ UNCHANGED <<session, config_vars>>

NextClient ==
    \/ \E s \in Spawners : Submit(s)
    \/ \E w \in Workers : Take(w)
    \/ \E w \in Workers : ClientCheck(w)
    \/ \E w \in Workers : ClientBuild(w)
    \/ \E w \in Workers : ClientBuildFails(w)
    \/ \E w \in Workers : ClientStore(w)
    \/ \E w \in Workers : ClientReturn(w)
    \/ \E w \in Workers : Call(w)

SpecClient == InitClient /\ [][NextClient]_vars

\* ------------------------------------------------------------------ claims

\* A start() that directly follows a start() which created a service, that
\* service still being live when the second start() is called.
SecondStart ==
    /\ op = "start"
    /\ prev_start
    /\ prev_svc # NoService
    /\ prev_svc = prev_id

C3_GetServiceOutcomes ==
    op = "get_service" =>
        /\ lookup = "found" =>
             (service = prev_svc /\ service # NoService
              /\ service_id = service /\ ret = "service")
        /\ lookup \in {"notfound", "server_error"} =>
             (service_id = EmptyId /\ service = NoService /\ ret = "None")
        /\ lookup = "client_error" => ret = "APIError"

C3_Witness ==
    /\ op = "get_service"
    /\ lookup = "server_error"
    /\ prev_id # EmptyId
    /\ service_id = EmptyId
    /\ svc # NoService

Polled == op = "poll" /\ ret # "APIError"

\* C5 (as stated): poll() returns unhealthy (0) whenever its task list holds a
\* rejected task, whatever the other tasks are, and has called stop().
C5_RejectedIsUnhealthy ==
    (Polled /\ HasState(tasks, "rejected")) => (ret = "0" /\ removes >= 1)

C7_OneRemovalPerPoll ==
    (Polled /\ HasState(tasks, "rejected")) => removes = 1

\* The readiness wait has walked the task list in `tasks`.
Walked == op \in {"wait", "start"} /\ listed /\ pc # "listing" /\ wait_ret # "APIError"

\* C8: the attempt counter grows only in iterations whose task list holds no
\* preparing task; so while every iteration lists a preparing task and no
\* running or rejected one, the counter stays 0 and the loop goes on.
C8_PreparingIsNotAnAttempt ==
    /\ [](only_preparing => (attempt = 0 /\ wait_ret = "pending" /\ pc # "idle"))
    /\ [][attempt' > attempt => ~HasState(tasks', "preparing")]_vars

C8_Witness ==
    /\ pc = "sleeping"
    /\ op = "wait"
    /\ only_preparing
    /\ HasState(tasks, "preparing")
    /\ attempt = 0
    /\ max_attempts = 0

\* C9 (as stated): the wait returns True in the first iteration whose task list
\* holds a running task, without sleeping again.
C9_RunningReturnsTrue ==
    (Walked /\ HasState(tasks, "running")) => (pc = "idle" /\ wait_ret = "True")

\* C10 (as stated): when no iteration lists a running, preparing or rejected
\* task, the empty list included, the wait returns False once the attempt
\* counter exceeds max_attempts: no such iteration that began with the counter
\* above max_attempts goes on to sleep.
C10_StalledWaitEnds ==
    (pc = "sleeping" /\ stalled) => attempt - 1 <= max_attempts

\* start() took the create path and its readiness wait returned False.
SoftTimeout == op = "start" /\ creates = 1 /\ wait_ret = "False"

C12_FailedWaitShowsOnPoll ==
    [][(/\ SoftTimeout
        /\ op' = "poll"
        /\ ret' # "APIError"
        /\ tasks' = tasks) => ret' = "0"]_vars

\* C13 (as stated): after a poll() that found a rejected task, the next start()
\* whose lookup does not fail client-side takes the create path, whatever the
\* outcome of the remove_service calls of that poll().
C13_StartAfterRejectedCreates ==
    [][(/\ Polled
        /\ HasState(tasks, "rejected")
        /\ op' = "start"
        /\ lookup' # "client_error") => creates' = 1]_vars

\* The env entries that begin with "JPY_API_TOKEN=".
Matching(lines) == {i \in 1..Len(lines) : startswith(lines[i], TokenPrefix)}

\* The text of `line` after its first "=".
AfterFirstEq(line) ==
    LET j == CHOOSE j \in 1..Len(line) :
                 line[j] = "=" /\ \A k \in 1..(j - 1) : line[k] # "="
    IN  SubSeq(line, j + 1, Len(line))

\* C14: when the lookup of start() finds a service, start() issues no
\* services.create and no tasks call, runs no readiness wait, and sets the
\* credential to the text after the first "=" of the first env entry of that
\* service that begins with "JPY_API_TOKEN="; with no such entry the credential
\* is the one the session had.
C14_AdoptReusesToken ==
    (op = "start" /\ lookup = "found") =>
        /\ creates = 0 /\ ~listed /\ wait_ret = "none"
        /\ ret = "ip_port"
        /\ IF Matching(envs) = {}
             THEN api_token = prev_token
             ELSE LET i == CHOOSE i \in Matching(envs) :
                               \A k \in Matching(envs) : i <= k
                  IN  api_token = AfterFirstEq(envs[i])

\* Two entries match; the first one's value holds an "=".
C14_Witness ==
    /\ op = "start" /\ lookup = "found"
    /\ Matching(envs) = {1, 2}
    /\ api_token = <<"=">>
    /\ AfterFirstEq(envs[2]) = <<>>
    /\ prev_token = NewToken

\* C15: at every key path at which config and update both hold a list,
\* _update_config(config, update) holds update's list followed by config's
\* list, each in its order; every path only config holds keeps config's value.
C15_ListsOverrideFirst ==
    (merged.called /\ ~merged.raised) =>
        \A opt \in DOMAIN config :
          /\ opt \in DOMAIN merged.config
          /\ (/\ opt \in DOMAIN default_config
              /\ config[opt].list
              /\ default_config[opt].list) =>
                 /\ merged.config[opt].list
                 /\ LET m == merged.config[opt].items
                        u == default_config[opt].items
                        c == config[opt].items
                    IN  /\ Len(m) = Len(u) + Len(c)
                        /\ \A i \in 1..Len(u) : m[i] = u[i]
                        /\ \A i \in 1..Len(c) : m[Len(u) + i] = c[i]
          /\ opt \notin DOMAIN default_config =>
                 merged.config[opt] = config[opt]

C15_Witness ==
    /\ merged.called /\ ~merged.raised
    /\ DOMAIN config = Paths
    /\ DOMAIN default_config = {<<"mounts">>}
    /\ config[<<"mounts">>] = [list |-> TRUE, items |-> <<"x", "y">>]
    /\ default_config[<<"mounts">>] = [list |-> TRUE, items |-> <<"y", "x">>]
    /\ merged.config[<<"mounts">>].items = <<"y", "x", "x", "y">>
    /\ merged.config[<<"image">>] = config[<<"image">>]

\* Both groupings of the three layers were computed.
Grouped == left.called /\ right.called

\* A path at which config holds a scalar, default_config a list and
\* profile_config a scalar.
ScalarListScalar ==
    \E opt \in DOMAIN config \cap DOMAIN default_config \cap DOMAIN profile_config :
        /\ ~config[opt].list
        /\ default_config[opt].list
        /\ ~profile_config[opt].list

\* C16 (as stated): merge(merge(a, b), c) equals merge(a, merge(b, c)) when the
\* merges succeed, and one grouping fails with a type mismatch exactly when the
\* other does.
C16_MergeAssociative ==
    Grouped =>
        /\ left.raised <=> right.raised
        /\ ~left.raised => left.config = right.config

\* C16 (amended): the two groupings are equal when both succeed, and the left
\* grouping fails whenever the right one does; the left grouping fails alone
\* exactly when at some path a holds a scalar, b a list and c a scalar.
C16_MergeAssociativeWhereDefined ==
    Grouped =>
        /\ (~left.raised /\ ~right.raised) => left.config = right.config
        /\ right.raised => left.raised
        /\ (left.raised /\ ~right.raised) <=> (ScalarListScalar /\ ~right.raised)

\* All three layers hold a list at a path, and a scalar at the other.
C16_Witness ==
    /\ Grouped
    /\ ~left.raised /\ ~right.raised
    /\ DOMAIN config = Paths /\ DOMAIN default_config = Paths
    /\ DOMAIN profile_config = Paths
    /\ left.config[<<"mounts">>].items = <<"c", "c", "b", "a", "a">>
    /\ right.config[<<"mounts">>].items = <<"c", "c", "b", "a", "a">>
    /\ left.config[<<"image">>] = profile_config[<<"image">>]
    /\ ~config[<<"image">>].list

\* The label `k` of a flattened config, "" when it holds none.
Label(cfg, k) ==
    IF <<"labels", k>> \in DOMAIN cfg THEN cfg[<<"labels", k>>].items[1] ELSE ""

Supplies(cfg, k) == <<"labels", k>> \in DOMAIN cfg

\* get_service_config() returned a config.
Built == built.called /\ ~built.raised

\* The built labels hold the three computed labels with their computed values.
IdentityLabels ==
    /\ \A k \in IdentityKeys : Supplies(built.config, k)
    /\ Label(built.config, "org.jupyterhub.user") = UserName
    /\ Label(built.config, "org.jupyterhub.server") = ServerName
    /\ Label(built.config, "org.jupyterhub.profile") =
          (IF user_options.given THEN user_options.name ELSE "")

C18_OneSharedClient ==
    /\ Len(constructed) <= 1
    /\ cls_client # NoClient => cls_client = constructed[1]
    /\ \A u \in used : Len(constructed) = 1 /\ u.client = constructed[1]
    /\ \A w \in Workers :
         worker[w].pc = "call" =>
            (Len(constructed) = 1 /\ worker[w].m = constructed[1])

\* Both sessions made calls; the client was built with the TLS configuration of
\* one of them and the other one's calls used it too.
C18_Witness ==
    /\ Len(constructed) = 1
    /\ constructed[1].tls = TlsOf("s2")
    /\ [self |-> "s1", client |-> constructed[1]] \in used
    /\ [self |-> "s2", client |-> constructed[1]] \in used
    /\ \A s \in Spawners : submitted[s] = MaxCalls

\* C19: the wait returns False in the first iteration whose task list holds a
\* rejected task, whatever the other tasks of the list are and wherever they
\* stand (a running task before or after it included), without sleeping again.
C19_RejectedEndsWait ==
    (Walked /\ HasState(tasks, "rejected")) =>
        /\ pc = "idle"
        /\ wait_ret = "False"
        /\ op = "wait" => ret = "False"

\* A running task is listed before the rejected one.
C19_Witness ==
    /\ op = "wait"
    /\ pc = "idle"
    /\ tasks = <<"running", "rejected">>
    /\ wait_ret = "False"
    /\ ret = "False"

\* C20: when the lookup of start() fails client-side, start() raises that
\* error, issues no services.create and no tasks call, and leaves the stored
\* service id as it was when start() was called.
C20_ClientErrorFrame ==
    (op = "start" /\ lookup = "client_error") =>
        /\ pc = "idle"
        /\ ret = "APIError"
        /\ creates = 0
        /\ ~listed
        /\ wait_ret = "none"
        /\ service_id = prev_id

\* The stored id named a service, live or not, and is still stored.
C20_Witness ==
    /\ op = "start"
    /\ lookup = "client_error"
    /\ ret = "APIError"
    /\ prev_id # EmptyId
    /\ service_id = prev_id
    /\ prev_svc = NoService

=============================================================================
